---- MODULE Spec2Model ----
(***************************************************************************)
(* Model of the tool registry (tool_registry.py) and of the HTTP handlers   *)
(* of main.py: the JSON-RPC 2.0 dispatcher (json_rpc_handler), the legacy  *)
(* endpoints (list_tools, call_tool) and health_check.                     *)
(*                                                                         *)
(* Python values are modelled as follows.  None and JSON null are the      *)
(* string Null; a key that is missing from a JSON object is Absent.  An    *)
(* Optional field that holds a structured value is a record, and its None  *)
(* is the record None.  A dict is a sequence of <<key, value>> pairs with   *)
(* distinct keys, in insertion order.  Texts that the code formats         *)
(* (messages, str(e)) are tuples of their parts.                           *)
(*                                                                         *)
(* Every handler is an `async def` run by the one event loop of            *)
(* uvicorn.run(app); json_rpc_handler has a single await (request.body())  *)
(* and the others none, and tools are called synchronously, so a handler   *)
(* runs without interleaving from its start to its return; pc is the       *)
(* position of the one request the event loop is serving.                  *)
(* A tool body ends by returning, by raising a subclass of Exception, or   *)
(* by raising a BaseException that is no Exception (eval in calculator     *)
(* raises SystemExit for the expression "exit()").                         *)
(***************************************************************************)
EXTENDS Integers, Sequences, FiniteSets, TLC

VARIABLES
    tools,      \* ToolRegistry.tools: insertion-ordered dict, name -> callable
    pc,         \* position of the event loop, "idle" when it serves no call
    body,       \* the raw request body of the call being served
    is_batch,   \* json_rpc_handler: is_batch
    requests,   \* json_rpc_handler: requests
    idx,        \* position of the for loop in requests (1-based)
    responses,  \* json_rpc_handler: responses
    reply,      \* the value json_rpc_handler returned
    calls,      \* tool callables entered during this call, with their outcome
    http,       \* the call and the reply of list_tools, call_tool, health_check
    latest,     \* history: for each name, the callable last passed to tool()
    listing,    \* history: what list_tools returned since the last tool()
    waiting,    \* GET /health requests that arrived and are not yet served
    directory,  \* auto_discover_tools: the directory it scans
    scan,       \* auto_discover_tools: position of the for loop in the listing
    docstring,  \* _parse_docstring: its argument
    doc_info    \* _parse_docstring: its return value

vars == <<tools, pc, body, is_batch, requests, idx, responses, reply, calls,
          http, latest, listing, waiting, directory, scan, docstring, doc_info>>

\* what json_rpc_handler leaves alone
outside_rpc == <<http, latest, listing, waiting, directory, scan, docstring, doc_info>>

----------------------------------------------------------------------------
\* Bounds

\* longest JSON array in a request body
MaxBatch == 2

\* the requests that wait for the event loop are at most MaxWaiting
MaxWaiting == 1

\* the entries of the scanned directory are at most MaxUnits
MaxUnits == 3

\* the lines of a parsed docstring are at most MaxLines
MaxLines == 4

----------------------------------------------------------------------------
\* Values

Null == "null"
Absent == "absent"
None == [none |-> TRUE]

SeqToSet(s) == {s[i] : i \in 1..Len(s)}

\* dict.keys() of a dict held as a sequence of <<key, value>> pairs
Keys(d) == [i \in 1..Len(d) |-> d[i][1]]

\* d[k] for a key the dict holds
Lookup(d, k) == d[CHOOSE i \in 1..Len(d) : d[i][1] = k][2]

----------------------------------------------------------------------------
\* Texts.  A line is a sequence of tokens: SP is a blank, FW the full-width
\* colon, AC the ASCII colon, any other token a word without blank or colon.
\* A docstring is its sequence of lines; given = FALSE is __doc__ = None.

SP == " "
FW == "fw_colon"
AC == ":"

NoDoc == [given |-> FALSE, lines |-> <<>>]
Doc(lines) == [given |-> TRUE, lines |-> lines]

----------------------------------------------------------------------------
\* Callables.  sig is inspect.signature(func).parameters in declaration
\* order; required = the parameter has no default; annotation is the name of
\* the annotated type, Absent without annotation.  doc is __doc__ (the words
\* of the texts of tools/*.py are abridged).  body says what the body
\* can do: weather only formats a str ("str"); calculator returns a str and
\* catches every Exception of eval, not the SystemExit of eval("exit()")
\* ("eval"); a user-supplied tool may return any value or raise ("any").

calculator ==
    [fname |-> "calculator",
     sig |-> <<[name |-> "expression", required |-> TRUE, annotation |-> "str"]>>,
     doc |-> Doc(<< <<>>,
                    <<SP, "calc_summary">>,
                    <<>>,
                    <<SP, "usage_cn", FW>>,
                    <<SP, "calc_usage">>,
                    <<>>,
                    <<SP, "params_cn", FW>>,
                    <<SP, "expression", AC, SP, "expr_text">>,
                    <<SP, "expr_more">>,
                    <<>>,
                    <<SP, "return_cn", FW>>,
                    <<SP, "str", SP, "-", SP, "result_text">>,
                    <<>>,
                    <<SP, "example_cn", FW>>,
                    <<SP, "calculator(expression=1+1)">>,
                    <<>>,
                    <<SP, "operators_cn", FW>>,
                    <<SP, "operators_text">>,
                    <<SP>> >>),
     body |-> "eval"]

weather ==
    [fname |-> "weather",
     sig |-> <<[name |-> "location", required |-> TRUE, annotation |-> "str"],
               [name |-> "date", required |-> FALSE, annotation |-> "str"]>>,
     doc |-> Doc(<< <<>>,
                    <<SP, "weather_summary">>,
                    <<>>,
                    <<SP, "usage_cn", FW>>,
                    <<SP, "weather_usage">>,
                    <<>>,
                    <<SP, "params_cn", FW>>,
                    <<SP, "location", AC, SP, "location_text">>,
                    <<SP, "date", AC, SP, "date_text">>,
                    <<SP, "date_more">>,
                    <<>>,
                    <<SP, "return_cn", FW>>,
                    <<SP, "str", SP, "-", SP, "result_text">>,
                    <<>>,
                    <<SP, "example_cn", FW>>,
                    <<SP, "weather(location=a)">>,
                    <<>>,
                    <<SP, "attention_cn", FW>>,
                    <<SP, "attention_text">>,
                    <<SP>> >>),
     body |-> "str"]

echo ==
    [fname |-> "echo",
     sig |-> <<[name |-> "x", required |-> TRUE, annotation |-> Absent]>>,
     doc |-> Doc(<< <<"echo_summary">>,
                    <<"Params", AC>>,
                    <<SP, "x", FW, "x_text">> >>),
     body |-> "any"]

\* a callable without parameters
ping ==
    [fname |-> "ping",
     sig |-> <<>>,
     doc |-> NoDoc,
     body |-> "any"]

\* a tool whose only parameter is called name
lookup ==
    [fname |-> "lookup",
     sig |-> <<[name |-> "name", required |-> TRUE, annotation |-> "str"]>>,
     doc |-> NoDoc,
     body |-> "str"]

\* another callable whose __name__ is weather, registered after tools/weather.py
weather_v2 ==
    [fname |-> "weather",
     sig |-> <<[name |-> "city", required |-> TRUE, annotation |-> "str"]>>,
     doc |-> Doc(<< <<"weather_v2_summary">> >>),
     body |-> "str"]

\* tools/*.py, registered by the discovery pass at import of main.py
DiscoveredFuncs == {calculator, weather}

\* callables registered by hand with @tool after startup
UserFuncs == {echo, ping}

\* what the server specification registers after startup
ServerFuncs == {echo, lookup, weather_v2}

ParamNames(f) == [i \in 1..Len(f.sig) |-> f.sig[i].name]

RequiredNames(f) ==
    SelectSeq(ParamNames(f),
              LAMBDA n : \E i \in 1..Len(f.sig) : f.sig[i].name = n /\ f.sig[i].required)

----------------------------------------------------------------------------
\* ToolRegistry

\* `name in self.tools`
HasTool(reg, name) == \E i \in 1..Len(reg) : reg[i][1] = name

\* self.tools[name]
GetTool(reg, name) == Lookup(reg, name)

\* self.tools[func.__name__] = func : a new key goes last, an existing key
\* keeps its position and takes the new value
SetTool_KeepFirst(reg, f) ==
    IF HasTool(reg, f.fname) THEN reg ELSE Append(reg, <<f.fname, f>>)

\* a name registered again moves to the end of the mapping
SetTool_MoveToEnd(reg, f) ==
    Append(SelectSeq(reg, LAMBDA p : p[1] # f.fname), <<f.fname, f>>)

SetTool(reg, f) ==
    IF HasTool(reg, f.fname)
    THEN [i \in 1..Len(reg) |-> IF reg[i][1] = f.fname THEN <<f.fname, f>> ELSE reg[i]]
    ELSE Append(reg, <<f.fname, f>>)

----------------------------------------------------------------------------
\* ToolRegistry._parse_docstring

\* d.get(k, default)
DictGet(d, k, default) ==
    IF \E i \in 1..Len(d) : d[i][1] = k THEN Lookup(d, k) ELSE default

\* d[k] = v
DictSet(d, k, v) ==
    IF \E i \in 1..Len(d) : d[i][1] = k
    THEN [i \in 1..Len(d) |-> IF d[i][1] = k THEN <<k, v>> ELSE d[i]]
    ELSE Append(d, <<k, v>>)

RECURSIVE LStrip(_)
LStrip(line) ==
    IF line # <<>> /\ Head(line) = SP THEN LStrip(Tail(line)) ELSE line

RECURSIVE RStrip(_)
RStrip(line) ==
    IF line # <<>> /\ line[Len(line)] = SP
    THEN RStrip(SubSeq(line, 1, Len(line) - 1))
    ELSE line

\* str.strip()
Strip(line) == RStrip(LStrip(line))

\* line 31: startswith(("参数：", "参数:", "Params：", "Params:"))
IsParamsHeader(stripped_line) ==
    /\ Len(stripped_line) >= 2
    /\ stripped_line[1] \in {"params_cn", "Params"}
    /\ stripped_line[2] \in {FW, AC}

\* lines 39-40: startswith(("返回：", "返回:", "示例：", "示例:",
\* "支持的操作符：", "注意：", "Note："))
IsTerminator(stripped_line) ==
    /\ Len(stripped_line) >= 2
    /\ \/ stripped_line[1] \in {"return_cn", "example_cn"} /\ stripped_line[2] \in {FW, AC}
       \/ stripped_line[1] \in {"operators_cn", "attention_cn", "Note"}
          /\ stripped_line[2] = FW

\* `sep in stripped_line`
Contains(line, sep) == \E i \in 1..Len(line) : line[i] = sep

\* stripped_line.split(sep, 1)
SplitOnce(line, sep) ==
    LET at == CHOOSE i \in 1..Len(line) :
                  line[i] = sep /\ \A j \in 1..(i - 1) : line[j] # sep
    IN  <<SubSeq(line, 1, at - 1), SubSeq(line, at + 1, Len(line))>>

\* "\n\n".join(main_desc_lines)
RECURSIVE JoinLines(_)
JoinLines(ls) ==
    IF ls = <<>> THEN <<>>
    ELSE IF Len(ls) = 1 THEN ls[1]
    ELSE ls[1] \o <<"\n\n">> \o JoinLines(Tail(ls))

\* lines 22-25: the locals of the loop; current_param is <<>> for None
ParseStart ==
    [main_desc_lines |-> <<>>, params_desc |-> <<>>, in_params_section |-> FALSE,
     current_param |-> <<>>, stopped |-> FALSE]

\* a terminating header met in the parameters section goes on with the next
\* line instead of leaving the loop
AtTerminator_Continue(st) == st

\* line 41: break
AtTerminator(st) == [st EXCEPT !.stopped = TRUE]

\* lines 46-72: a non-blank line of the parameters section
ParamLine(st, stripped_line) ==
    IF ~Contains(stripped_line, FW) /\ ~Contains(stripped_line, AC)
    THEN IF st.current_param # <<>>
         THEN [st EXCEPT !.params_desc =
                  DictSet(@, st.current_param,
                          DictGet(@, st.current_param, <<>>) \o <<SP>> \o stripped_line)]
         ELSE st
    ELSE LET sep == IF Contains(stripped_line, FW) THEN FW ELSE AC
             parts == SplitOnce(stripped_line, sep)
             param_name == Strip(parts[1])
             desc == Strip(parts[2])
         IN  IF param_name # <<>>
             THEN [st EXCEPT !.params_desc = DictSet(@, param_name, desc),
                             !.current_param = param_name]
             ELSE st

\* lines 28-72: the body of the loop for one line
ParseLine(st, line) ==
    LET stripped_line == Strip(line) IN
    IF IsParamsHeader(stripped_line)
    THEN [st EXCEPT !.in_params_section = TRUE]
    ELSE IF ~st.in_params_section
    THEN IF stripped_line # <<>>
         THEN [st EXCEPT !.main_desc_lines = Append(@, stripped_line)]
         ELSE st
    ELSE IF IsTerminator(stripped_line) THEN AtTerminator(st)
    ELSE IF stripped_line = <<>> THEN st
    ELSE ParamLine(st, stripped_line)

\* lines 28-72: the loop
RECURSIVE ParseLines(_, _)
ParseLines(st, lines) ==
    IF lines = <<>> \/ st.stopped THEN st
    ELSE ParseLines(ParseLine(st, Head(lines)), Tail(lines))

\* _parse_docstring(docstring)
ParseDocstring(d) ==
    IF ~d.given \/ d.lines = <<>>
    THEN [description |-> <<>>, params_desc |-> <<>>]
    ELSE LET st == ParseLines(ParseStart, d.lines) IN
         [description |-> JoinLines(st.main_desc_lines),
          params_desc |-> st.params_desc]

----------------------------------------------------------------------------
\* ToolRegistry.list_tools

\* lines 87-90
ParamType(param) ==
    IF param.annotation # Absent THEN param.annotation ELSE "str"

\* only the parameters without default are described
Descriptors_RequiredOnly(f, info) ==
    LET req == SelectSeq(f.sig, LAMBDA param : param.required) IN
    [i \in 1..Len(req) |->
        [name |-> req[i].name, type |-> ParamType(req[i]),
         description |-> DictGet(info.params_desc, <<req[i].name>>, <<>>)]]

\* lines 84-97
Descriptors(f, info) ==
    [i \in 1..Len(f.sig) |->
        [name |-> f.sig[i].name, type |-> ParamType(f.sig[i]),
         description |-> DictGet(info.params_desc, <<f.sig[i].name>>, <<>>)]]

\* lines 81-103
ListTools(reg) ==
    [tools |->
        [i \in 1..Len(reg) |->
            LET info == ParseDocstring(reg[i][2].doc) IN
            [name |-> reg[i][1],
             description |-> info.description,
             parameters |-> Descriptors(reg[i][2], info)]]]

----------------------------------------------------------------------------
\* Tool bodies

\* a str and None
ReturnValues == {"v1", Null}

\* TypeError, ValueError and any other subclass of Exception
ExcKinds == {"TypeError", "ValueError", "RuntimeError"}

\* a BaseException that `except Exception` does not catch
BaseExcKinds == {"SystemExit"}

\* str(e) of an exception raised by a tool body
ExcTexts == {<<"m1">>, <<"m2">>}

Returned(v) == [kind |-> "return", val |-> v]
Raised(e, m) == [kind |-> "raise", exc |-> e, msg |-> m]
Running == [kind |-> "running"]

\* what the body of f can do once it is entered
BodyOutcomes(f) ==
    CASE f.body = "str"  -> {Returned("v1")}
      [] f.body = "eval" -> {Returned("v1"), Raised("SystemExit", <<"m1">>)}
      [] OTHER           -> {Returned(v) : v \in ReturnValues}
                            \cup {Raised(e, m) : e \in ExcKinds, m \in ExcTexts}
                            \cup {Raised("SystemExit", <<"m1">>)}

\* the outcomes a try with `except Exception` turns into a value
Caught(outcome) ==
    IF outcome.kind = "return" THEN TRUE ELSE outcome.exc \in ExcKinds

\* tool_registry.call_tool(name, **kwargs) up to the entry of the tool body:
\* Python binds kwargs to call_tool(self, name, **kwargs) first, then
\* call_tool looks the name up, then Python binds kwargs to the callable.
\* the lookup of call_tool removes the entry it reads
ToolsAfterCall_Pop(reg, name) == SelectSeq(reg, LAMBDA p : p[1] # name)

\* tool_registry.call_tool reads self.tools (`in` and a subscript): the
\* mapping after call_tool(name, ...)
ToolsAfterCall(reg, name) == reg

CallToolBinding(reg, name, kwargs) ==
    LET keys == SeqToSet(Keys(kwargs)) IN
    IF keys \cap {"self", "name"} # {}
    THEN [ok |-> FALSE, exc |-> "TypeError", msg |-> <<"multiple_values_for_argument">>]
    ELSE IF ~HasTool(reg, name)
    THEN [ok |-> FALSE, exc |-> "ValueError", msg |-> <<"tool", name, "not_found">>]
    ELSE LET f == GetTool(reg, name) IN
         IF ~(keys \subseteq SeqToSet(ParamNames(f)))
         THEN [ok |-> FALSE, exc |-> "TypeError", msg |-> <<"unexpected_keyword_argument">>]
         ELSE IF ~(SeqToSet(RequiredNames(f)) \subseteq keys)
         THEN [ok |-> FALSE, exc |-> "TypeError", msg |-> <<"missing_required_argument">>]
         ELSE [ok |-> TRUE, func |-> f]

----------------------------------------------------------------------------
\* JSON-RPC models

JSONRPCError(code, message, data) ==
    [code |-> code, message |-> message, data |-> data]

JSONRPCResponse(id, result, error) ==
    [jsonrpc |-> "2.0", id |-> id, result |-> result, error |-> error]

\* JSONRPCRequest(**req): req must be a mapping; method is a required str;
\* jsonrpc is a str defaulting to "2.0"; id and params are Optional and
\* default to None; params must be a mapping when given.
JSONRPCRequest(req) ==
    IF ~req.obj
    THEN [ok |-> FALSE, exc |-> "TypeError", err |-> <<"argument_must_be_a_mapping">>]
    ELSE IF req.method \in {Absent, Null} \/ req.jsonrpc = Null \/ req.params.kind = "bad"
    THEN [ok |-> FALSE, exc |-> "ValidationError", err |-> <<"validation_error">>]
    ELSE [ok |-> TRUE,
          jsonrpc |-> IF req.jsonrpc = Absent THEN "2.0" ELSE req.jsonrpc,
          id |-> IF req.id = Absent THEN Null ELSE req.id,
          method |-> req.method,
          params |-> req.params]

\* rpc_req.params or {}
ParamsOrEmpty(params) == IF params.kind = "map" THEN params.kv ELSE <<>>

----------------------------------------------------------------------------
\* json_rpc_handler: the responses it builds

\* available_tools taken from a list of the tools shipped in tools/ instead
\* of the registry
MethodNotFound_Stale(rpc_req, reg) ==
    JSONRPCResponse(rpc_req.id, None,
        JSONRPCError(-32601, <<"tool", rpc_req.method, "not_found">>,
                     [available_tools |-> <<"calculator", "weather">>]))

\* lines 110-115
MethodNotFound(rpc_req, reg) ==
    JSONRPCResponse(rpc_req.id, None,
        JSONRPCError(-32601, <<"tool", rpc_req.method, "not_found">>,
                     [available_tools |-> Keys(reg)]))

\* the result under the key of the legacy endpoint
Success_LegacyKey(rpc_req, result) ==
    JSONRPCResponse(rpc_req.id, [result |-> result], None)

\* lines 122-125
Success(rpc_req, result) ==
    JSONRPCResponse(rpc_req.id, [value |-> result], None)

\* lines 127-140: except TypeError
InvalidParams(rpc_req, reg, params, text) ==
    JSONRPCResponse(rpc_req.id, None,
        JSONRPCError(-32602, <<"invalid_params">>,
                     [error |-> text,
                      required_params |-> ParamNames(GetTool(reg, rpc_req.method)),
                      received_params |-> Keys(params)]))

\* the response of a failed tool built without the request's id
ToolFailed_NoId(rpc_req) ==
    JSONRPCResponse(Null, None,
        JSONRPCError(-32603, <<"tool_execute_failed">>,
                     [error_code |-> "TOOL_EXECUTE_FAILED"]))

\* lines 141-149: except Exception
ToolFailed(rpc_req) ==
    JSONRPCResponse(rpc_req.id, None,
        JSONRPCError(-32603, <<"tool_execute_failed">>,
                     [error_code |-> "TOOL_EXECUTE_FAILED"]))

\* lines 151-159: the handlers of the per-item try
ItemExcept(exc, text) ==
    IF exc = "JSONDecodeError"
    THEN JSONRPCResponse(Null, None, JSONRPCError(-32700, <<"invalid_json">>, None))
    ELSE JSONRPCResponse(Null, None,
             JSONRPCError(-32600, <<"invalid_request_format">>, [text |-> text]))

\* lines 164-170: the handler of the outermost try
GlobalExcept ==
    JSONRPCResponse(Null, None, JSONRPCError(-32603, <<"internal_server_error">>, None))

\* lines 119-149 once the call of call_tool has ended: its return value or
\* the exception it let through
AfterCall(rpc_req, reg, params, outcome) ==
    IF outcome.kind = "return" THEN Success(rpc_req, outcome.val)
    ELSE IF outcome.exc = "TypeError" THEN InvalidParams(rpc_req, reg, params, outcome.msg)
    ELSE ToolFailed(rpc_req)

\* lines 98-120 for one item, up to the entry of the tool body: either the
\* item's response (enter = FALSE) or the callable that is entered
BeforeCall(req, reg) ==
    LET rpc_req == JSONRPCRequest(req) IN
    IF ~rpc_req.ok
    THEN [enter |-> FALSE, resp |-> ItemExcept(rpc_req.exc, rpc_req.err)]
    ELSE IF rpc_req.jsonrpc # "2.0"
    THEN [enter |-> FALSE, resp |-> ItemExcept("ValueError", <<"only_jsonrpc_2.0">>)]
    ELSE IF ~HasTool(reg, rpc_req.method)
    THEN [enter |-> FALSE, resp |-> MethodNotFound(rpc_req, reg)]
    ELSE LET params == ParamsOrEmpty(rpc_req.params)
             bound == CallToolBinding(reg, rpc_req.method, params)
         IN  IF ~bound.ok
             THEN [enter |-> FALSE,
                   resp |-> AfterCall(rpc_req, reg, params, Raised(bound.exc, bound.msg))]
             ELSE [enter |-> TRUE, rpc_req |-> rpc_req, params |-> params,
                   func |-> bound.func]

\* responses.insert(0, r) in place of responses.append(r)
AppendResponse_Front(rs, r) == <<r>> \o rs

\* responses.append(r)
AppendResponse(rs, r) == Append(rs, r)

\* `return responses` without the unwrapping of a single request
Assemble_NoUnwrap(batch, rs) == [kind |-> "list", items |-> rs]

\* line 162
Assemble(batch, rs) ==
    IF batch THEN [kind |-> "list", items |-> rs]
    ELSE [kind |-> "object", item |-> rs[1]]

----------------------------------------------------------------------------
\* Request bodies

JsonrpcVals == {Absent, Null, "2.0", "1.0"}
IdVals == {Absent, Null, "int:7", "str:a"}
MethodVals == {Absent, "calculator", "weather", "echo", "ping", "nosuch"}

\* JSON objects given as params, keys in the order of the text
Dicts ==
    {<<>>,
     <<<<"expression", "a">>>>,
     <<<<"location", "a">>>>,
     <<<<"location", "a">>, <<"date", "b">>>>,
     <<<<"date", "b">>, <<"location", "a">>>>,
     <<<<"location", "a">>, <<"zzz", "b">>>>,
     <<<<"x", "a">>>>,
     <<<<"name", "a">>>>}

\* params: missing, null, a JSON value that is no object, or an object
ParamVals ==
    {[kind |-> k, kv |-> <<>>] : k \in {"absent", "null", "bad"}}
    \cup {[kind |-> "map", kv |-> d] : d \in Dicts}

\* an item that is a JSON object
Objects ==
    [obj : {TRUE}, jsonrpc : JsonrpcVals, id : IdVals, method : MethodVals,
     params : ParamVals]

\* an item that is a JSON number, string, null or array
NonObject ==
    [obj |-> FALSE, jsonrpc |-> Absent, id |-> Absent, method |-> Absent,
     params |-> [kind |-> "absent", kv |-> <<>>]]

Items == Objects \cup {NonObject}

\* the arguments that fit the signature of the tool an item names
FittingParams(method) ==
    CASE method = "calculator" -> <<<<"expression", "a">>>>
      [] method = "weather"    -> <<<<"location", "a">>>>
      [] method = "echo"       -> <<<<"x", "a">>>>
      [] OTHER                 -> <<>>

\* in how many members an item departs from a plain call of weather with an
\* integer id
Departures(it) ==
    (IF it.jsonrpc = "2.0" THEN 0 ELSE 1)
    + (IF it.id = "int:7" THEN 0 ELSE 1)
    + (IF it.method = "weather" THEN 0 ELSE 1)
    + (IF it.params = [kind |-> "map", kv |-> FittingParams(it.method)] THEN 0 ELSE 1)

\* the items batches are made of
BatchItems ==
    {it \in Objects :
        /\ Departures(it) <= 1
        /\ it.jsonrpc # Null
        /\ it.id # Null
        /\ it.method \in {Absent, "weather", "echo", "nosuch"}
        /\ it.params.kind \in {"absent", "map"}
        /\ it.params.kv \in {<<>>, FittingParams(it.method),
                             <<<<"location", "a">>, <<"zzz", "b">>>>}}
    \cup {NonObject}

Bodies ==
    {[kind |-> "empty"], [kind |-> "invalid"]}
    \cup {[kind |-> "json", list |-> FALSE, value |-> it] : it \in Items}
    \cup {[kind |-> "json", list |-> TRUE, items |-> s] :
            s \in UNION {[1..n -> BatchItems] : n \in 0..MaxBatch}}

\* the names and arguments of the calls of the server specification
ServerNames == {"weather", "echo", "lookup", "nosuch"}

ServerDicts ==
    {<<>>,
     <<<<"location", "a">>>>,
     <<<<"city", "a">>>>,
     <<<<"x", "a">>>>,
     <<<<"name", "a">>>>}

ServerBodies ==
    {[kind |-> "json", list |-> FALSE,
      value |-> [obj |-> TRUE, jsonrpc |-> "2.0", id |-> "int:7", method |-> m,
                 params |-> [kind |-> "map", kv |-> d]]] :
        m \in ServerNames, d \in ServerDicts}

\* The entries of a scanned directory.  An entry is a file name, the
\* callables its import hands to @tool in order, and how the import ends:
\* "ok", "raise" (an Exception after `before` registrations) or "exit" (a
\* BaseException such as SystemExit after `before` registrations).
Unit(filename, funcs, load, before) ==
    [filename |-> filename, funcs |-> funcs, load |-> load, before |-> before]

Units ==
    {Unit("calculator.py", <<calculator>>, "ok", 1),
     Unit("weather.py", <<weather>>, "ok", 1),
     Unit("__init__.py", <<lookup>>, "ok", 1),
     Unit("notes.txt", <<>>, "ok", 0)}
    \cup {Unit("extra.py", <<echo, ping>>, "ok", 2)}
    \cup {Unit("extra.py", <<echo, ping>>, "raise", n) : n \in 0..1}
    \cup {Unit("exits.py", <<>>, "exit", 0)}

\* os.listdir(package_path) of a directory: distinct file names in any order
Listings ==
    {l \in UNION {[1..n -> Units] : n \in 0..MaxUnits} :
        \A i, j \in 1..Len(l) : l[i].filename = l[j].filename => i = j}

\* what package_path names: nothing, a regular file, or a directory
Directories ==
    {[kind |-> "missing", listing |-> <<>>], [kind |-> "file", listing |-> <<>>]}
    \cup {[kind |-> "dir", listing |-> l] : l \in Listings}

\* line 117: filename.endswith(".py") and filename != "__init__.py"
Eligible(unit) == unit.filename \notin {"__init__.py", "notes.txt"}

\* the @tool lines an import runs before it ends
Registered(unit) ==
    IF unit.load = "ok" THEN unit.funcs ELSE SubSeq(unit.funcs, 1, unit.before)

RECURSIVE RegisterAll(_, _)
RegisterAll(reg, funcs) ==
    IF funcs = <<>> THEN reg
    ELSE RegisterAll(SetTool(reg, Head(funcs)), Tail(funcs))

RECURSIVE LatestAfter(_, _)
LatestAfter(l, funcs) ==
    IF funcs = <<>> THEN l
    ELSE LatestAfter({p \in l : p[1] # Head(funcs).fname}
                        \cup {<<Head(funcs).fname, Head(funcs)>>},
                     Tail(funcs))

\* The lines docstrings are made of: blank, plain text, the parameters
\* header, section headers with either colon, and lines with one or both
\* colons.
DocLines ==
    {<<>>,
     <<"text">>,
     <<SP, "params_cn", FW>>,
     <<"Params", AC, "text">>,
     <<"return_cn", AC>>,
     <<SP, "Note", FW, "text">>,
     <<"Note", AC>>,
     <<SP, "x", AC, SP, "d1">>,
     <<"y", FW, "d2", AC, "d3">>,
     <<"x", AC, "b", FW, "c">>,
     <<AC, "d1">>}

Docstrings ==
    {NoDoc} \cup {Doc(l) : l \in UNION {[1..n -> DocLines] : n \in 0..MaxLines}}

AllOutcomes == UNION {BodyOutcomes(f) : f \in {calculator, weather, echo}}

----------------------------------------------------------------------------
\* Initial state: main.py has been imported, so the discovery pass has
\* registered tools/*.py in the order os.listdir gave them.

NoBody == [kind |-> "none"]
NoReply == [kind |-> "none"]
NoHttp == [kind |-> "none"]
NoListing == [kind |-> "none"]
NoDirectory == [kind |-> "none", listing |-> <<>>]
NoDocInfo == [kind |-> "none"]

\* the per-call variables and the variables of the other entry points at rest
AtRest ==
    /\ pc = "idle"
    /\ body = NoBody
    /\ is_batch = FALSE
    /\ requests = <<>>
    /\ idx = 0
    /\ responses = <<>>
    /\ reply = NoReply
    /\ calls = <<>>
    /\ http = NoHttp
    /\ listing = NoListing
    /\ waiting = 0
    /\ scan = 0
    /\ doc_info = NoDocInfo

Init ==
    /\ tools \in {<<<<"calculator", calculator>>, <<"weather", weather>>>>,
                  <<<<"weather", weather>>, <<"calculator", calculator>>>>}
    /\ latest = {<<"calculator", calculator>>, <<"weather", weather>>}
    /\ directory = NoDirectory
    /\ docstring = NoDoc
    /\ AtRest

\* tool_registry = ToolRegistry() (tool_registry.py line 125), before the
\* startup scan of main.py lines 20-25
InitDiscover ==
    /\ tools = <<>>
    /\ latest = {}
    /\ directory \in Directories
    /\ docstring = NoDoc
    /\ AtRest

\* a docstring handed to _parse_docstring
InitDoc ==
    /\ tools = <<>>
    /\ latest = {}
    /\ directory = NoDirectory
    /\ docstring \in Docstrings
    /\ AtRest

----------------------------------------------------------------------------
\* Actions

\* @tool applied to a callable (tool_registry.tool)
tool(func) ==
    /\ pc = "idle"
    /\ tools' = SetTool(tools, func)
    /\ latest' = {p \in latest : p[1] # func.fname} \cup {<<func.fname, func>>}
    /\ listing' = NoListing
    /\ UNCHANGED <<pc, body, is_batch, requests, idx, responses, reply, calls,
                   http, waiting, directory, scan, docstring, doc_info>>

\* json_rpc_handler, lines 84-95 (and 164-170 when they raise)
rpc_receive(raw_body) ==
    /\ pc = "idle"
    /\ body' = raw_body
    /\ IF raw_body.kind # "json"
       THEN /\ reply' = [kind |-> "object", item |-> GlobalExcept]
            /\ pc' = "done"
            /\ UNCHANGED <<is_batch, requests, idx, responses>>
       ELSE /\ is_batch' = raw_body.list
            /\ requests' = IF raw_body.list THEN raw_body.items ELSE <<raw_body.value>>
            /\ idx' = 1
            /\ responses' = <<>>
            /\ pc' = "loop"
            /\ UNCHANGED reply
    /\ UNCHANGED <<tools, calls>>
    /\ UNCHANGED outside_rpc

\* one iteration of the for loop, lines 96-120, up to the entry of the tool
rpc_item ==
    /\ pc = "loop"
    /\ idx <= Len(requests)
    /\ LET step == BeforeCall(requests[idx], tools) IN
       IF step.enter
       THEN /\ calls' = Append(calls, [item |-> idx, tool |-> step.func.fname,
                                       kwargs |-> step.params, outcome |-> Running])
            /\ pc' = "in_tool"
            /\ UNCHANGED <<idx, responses>>
       ELSE /\ responses' = AppendResponse(responses, step.resp)
            /\ idx' = idx + 1
            /\ UNCHANGED <<pc, calls>>
    /\ UNCHANGED <<tools, body, is_batch, requests, reply>>
    /\ UNCHANGED outside_rpc

\* the tool body ends and the iteration completes, lines 120-149
rpc_tool_ends(outcome) ==
    /\ pc = "in_tool"
    /\ LET step == BeforeCall(requests[idx], tools) IN
       /\ outcome \in BodyOutcomes(step.func)
       /\ Caught(outcome)
       /\ responses' = AppendResponse(responses,
                           AfterCall(step.rpc_req, tools, step.params, outcome))
    /\ calls' = [calls EXCEPT ![Len(calls)].outcome = outcome]
    /\ idx' = idx + 1
    /\ pc' = "loop"
    /\ UNCHANGED <<tools, body, is_batch, requests, reply>>
    /\ UNCHANGED outside_rpc

\* the tool body raises what no `except Exception` of the handler catches:
\* the exception leaves json_rpc_handler and no response is returned
rpc_tool_escapes(outcome) ==
    /\ pc = "in_tool"
    /\ outcome \in BodyOutcomes(BeforeCall(requests[idx], tools).func)
    /\ ~Caught(outcome)
    /\ calls' = [calls EXCEPT ![Len(calls)].outcome = outcome]
    /\ pc' = "escaped"
    /\ UNCHANGED <<tools, body, is_batch, requests, idx, responses, reply>>
    /\ UNCHANGED outside_rpc

\* line 162
rpc_return ==
    /\ pc = "loop"
    /\ idx > Len(requests)
    /\ reply' = Assemble(is_batch, responses)
    /\ pc' = "done"
    /\ UNCHANGED <<tools, body, is_batch, requests, idx, responses, calls>>
    /\ UNCHANGED outside_rpc

\* the reply has been sent and the call's frame is gone
rpc_sent ==
    /\ pc = "done"
    /\ pc' = "idle"
    /\ body' = NoBody
    /\ is_batch' = FALSE
    /\ requests' = <<>>
    /\ idx' = 0
    /\ responses' = <<>>
    /\ reply' = NoReply
    /\ calls' = <<>>
    /\ UNCHANGED tools
    /\ UNCHANGED outside_rpc

\* POST /mcp/v1/tools/{tool_name}, main.py lines 63-72, up to the entry of
\* the tool body, or to the reply when the body is not entered
call_tool(tool_name, parameters) ==
    /\ pc = "idle"
    /\ LET binding == CallToolBinding(tools, tool_name, parameters)
           call == [tool_name |-> tool_name, parameters |-> parameters,
                    registered |-> HasTool(tools, tool_name),
                    func |-> IF HasTool(tools, tool_name)
                             THEN GetTool(tools, tool_name) ELSE None]
       IN  IF binding.ok
           THEN /\ http' = [kind |-> "call", call |-> call, outcome |-> Running]
                /\ pc' = "legacy_tool"
           ELSE /\ http' = [kind |-> "reply", call |-> call, outcome |-> Running,
                            status |-> IF binding.exc = "ValueError" THEN 404 ELSE 400,
                            content |-> binding.msg]
                /\ pc' = "idle"
    /\ tools' = ToolsAfterCall(tools, tool_name)
    /\ UNCHANGED <<body, is_batch, requests, idx, responses, reply, calls,
                   latest, listing, waiting, directory, scan, docstring, doc_info>>

\* the tool body ends inside call_tool, main.py lines 66-72
call_tool_ends(outcome) ==
    /\ pc = "legacy_tool"
    /\ outcome \in BodyOutcomes(GetTool(tools, http.call.tool_name))
    /\ Caught(outcome)
    /\ http' = [kind |-> "reply", call |-> http.call, outcome |-> outcome,
                status |-> IF outcome.kind = "return" THEN 200
                           ELSE IF outcome.exc = "ValueError" THEN 404 ELSE 400,
                content |-> IF outcome.kind = "return" THEN <<"result", outcome.val>>
                            ELSE outcome.msg]
    /\ pc' = "idle"
    /\ UNCHANGED <<tools, body, is_batch, requests, idx, responses, reply, calls,
                   latest, listing, waiting, directory, scan, docstring, doc_info>>

\* the tool body raises what neither except clause of call_tool catches
call_tool_escapes(outcome) ==
    /\ pc = "legacy_tool"
    /\ outcome \in BodyOutcomes(GetTool(tools, http.call.tool_name))
    /\ ~Caught(outcome)
    /\ http' = [http EXCEPT !.outcome = outcome]
    /\ pc' = "escaped"
    /\ UNCHANGED <<tools, body, is_batch, requests, idx, responses, reply, calls,
                   latest, listing, waiting, directory, scan, docstring, doc_info>>

\* GET /mcp/v1/tools, main.py lines 58-60
list_tools ==
    /\ pc = "idle"
    /\ listing' = [kind |-> "listing", value |-> ListTools(tools)]
    /\ UNCHANGED <<tools, pc, body, is_batch, requests, idx, responses, reply,
                   calls, http, latest, waiting, directory, scan, docstring, doc_info>>

\* a GET /health arrives on another connection; the event loop picks it up
\* when the handler it is running returns
health_arrives ==
    /\ pc # "escaped"
    /\ waiting < MaxWaiting
    /\ waiting' = waiting + 1
    /\ UNCHANGED <<tools, pc, body, is_batch, requests, idx, responses, reply,
                   calls, http, latest, listing, directory, scan, docstring, doc_info>>

\* GET /health, main.py lines 176-182, run by the event loop
health_check ==
    /\ pc = "idle"
    /\ waiting > 0
    /\ waiting' = waiting - 1
    /\ UNCHANGED <<tools, pc, body, is_batch, requests, idx, responses, reply,
                   calls, http, latest, listing, directory, scan, docstring, doc_info>>

Next ==
    \/ \E func \in UserFuncs : tool(func)
    \/ \E raw_body \in Bodies : rpc_receive(raw_body)
    \/ rpc_item
    \/ \E outcome \in AllOutcomes : rpc_tool_ends(outcome)
    \/ \E outcome \in AllOutcomes : rpc_tool_escapes(outcome)
    \/ rpc_return
    \/ rpc_sent

Spec == Init /\ [][Next]_vars

\* auto_discover_tools, tool_registry.py lines 110-115, called by main.py
\* line 21: a missing path returns; os.listdir of a path that is no
\* directory raises, which main.py lines 23-25 turn into a RuntimeError
auto_discover_tools ==
    /\ pc = "idle"
    /\ scan = 0
    /\ IF directory.kind = "missing" THEN pc' = "discovered" /\ scan' = 0
       ELSE IF directory.kind = "file" THEN pc' = "startup_failed" /\ scan' = 0
       ELSE pc' = "scanning" /\ scan' = 1
    /\ UNCHANGED <<tools, body, is_batch, requests, idx, responses, reply, calls,
                   http, latest, listing, waiting, directory, docstring, doc_info>>

\* one iteration of the loop of lines 116-122
discover_unit ==
    /\ pc = "scanning"
    /\ scan <= Len(directory.listing)
    /\ LET unit == directory.listing[scan] IN
       IF ~Eligible(unit)
       THEN /\ scan' = scan + 1
            /\ UNCHANGED <<tools, latest, pc>>
       ELSE /\ tools' = RegisterAll(tools, Registered(unit))
            /\ latest' = LatestAfter(latest, Registered(unit))
            /\ IF unit.load = "exit"
               THEN pc' = "startup_failed" /\ UNCHANGED scan
               ELSE scan' = scan + 1 /\ UNCHANGED pc
    /\ UNCHANGED <<body, is_batch, requests, idx, responses, reply, calls,
                   http, listing, waiting, directory, docstring, doc_info>>

\* the loop of line 116 is exhausted: auto_discover_tools returns
discover_return ==
    /\ pc = "scanning"
    /\ scan > Len(directory.listing)
    /\ pc' = "discovered"
    /\ UNCHANGED <<tools, body, is_batch, requests, idx, responses, reply, calls,
                   http, latest, listing, waiting, directory, scan, docstring,
                   doc_info>>

NextDiscover ==
    \/ auto_discover_tools
    \/ discover_unit
    \/ discover_return

SpecDiscover == InitDiscover /\ [][NextDiscover]_vars

\* _parse_docstring(docstring), tool_registry.py lines 15-77
parse_docstring ==
    /\ pc = "idle"
    /\ doc_info = NoDocInfo
    /\ doc_info' = [kind |-> "info", value |-> ParseDocstring(docstring)]
    /\ UNCHANGED <<tools, pc, body, is_batch, requests, idx, responses, reply,
                   calls, http, latest, listing, waiting, directory, scan, docstring>>

NextDoc == parse_docstring

SpecDoc == InitDoc /\ [][NextDoc]_vars

\* The server with both surfaces, the listing and the health probe; the RPC
\* bodies are single calls.
NextServer ==
    \/ \E func \in ServerFuncs : tool(func)
    \/ \E raw_body \in ServerBodies : rpc_receive(raw_body)
    \/ rpc_item
    \/ \E outcome \in AllOutcomes : rpc_tool_ends(outcome)
    \/ \E outcome \in AllOutcomes : rpc_tool_escapes(outcome)
    \/ rpc_return
    \/ rpc_sent
    \/ \E tool_name \in ServerNames, parameters \in ServerDicts :
          call_tool(tool_name, parameters)
    \/ \E outcome \in AllOutcomes : call_tool_ends(outcome)
    \/ \E outcome \in AllOutcomes : call_tool_escapes(outcome)
    \/ list_tools
    \/ health_arrives
    \/ health_check

SpecServer == Init /\ [][NextServer]_vars

----------------------------------------------------------------------------
\* Vocabulary of the properties

\* the items of the current call that have been answered
Answered == 1..Len(responses)

\* the entries of the call log that belong to item i
CallsOf(i) == {k \in DOMAIN calls : calls[k].item = i}

ErrorCode(r) == IF r.error = None THEN 0 ELSE r.error.code

\* the item coerces to a Request and passes the version check of line 100
Accepted(req) == JSONRPCRequest(req).ok /\ JSONRPCRequest(req).jsonrpc = "2.0"

OpaqueData == [error_code |-> "TOOL_EXECUTE_FAILED"]

\* the response item i gets, from the item, the registry and what the tool
\* body did if it was entered
OutcomeOf(i) ==
    LET step == BeforeCall(requests[i], tools) IN
    IF ~step.enter THEN step.resp
    ELSE AfterCall(step.rpc_req, tools, step.params,
                   calls[CHOOSE k \in DOMAIN calls : calls[k].item = i].outcome)

----------------------------------------------------------------------------
\* C1: a body that is a JSON array of K items is answered by a list of
\* exactly K responses, and the response at position i is the outcome of the
\* item at position i, whatever the other items did.
C1_BatchOrder ==
    (pc = "done" /\ body.kind = "json" /\ body.list) =>
        /\ reply.kind = "list"
        /\ Len(reply.items) = Len(body.items)
        /\ \A i \in 1..Len(body.items) :
              /\ reply.items[i] = OutcomeOf(i)
              /\ Cardinality(CallsOf(i)) <= 1

\* a batch whose first item fails in its tool and whose second item succeeds
C1_Witness ==
    /\ pc = "done" /\ body.kind = "json" /\ body.list
    /\ Len(body.items) = 2
    /\ ErrorCode(reply.items[1]) = -32603
    /\ reply.items[2].error = None
    /\ reply.items[1].id # reply.items[2].id

\* C2: a body that is not valid JSON is answered by a single response
\* object with id = null and error.code = -32700.
C2_ParseError ==
    (pc = "done" /\ body.kind = "invalid") =>
        /\ reply.kind = "object"
        /\ reply.item.id = Null
        /\ ErrorCode(reply.item) = -32700

\* C3: an empty body is answered by a single top-level response with
\* id = null and error.code = -32600.
C3_EmptyBody ==
    (pc = "done" /\ body.kind = "empty") =>
        /\ reply.kind = "object"
        /\ reply.item.id = Null
        /\ ErrorCode(reply.item) = -32600

\* C4: whenever the body of a tool raised, whatever the kind and the text of
\* the exception, the item's response has error.code = -32603 and the opaque
\* data, and it is the response any other text would have produced.
C4_Redaction ==
    \A k \in DOMAIN calls :
        (calls[k].outcome.kind = "raise" /\ calls[k].item \in Answered) =>
            LET r == responses[calls[k].item]
                step == BeforeCall(requests[calls[k].item], tools)
            IN  /\ ErrorCode(r) = -32603
                /\ r.error.data = OpaqueData
                /\ \A text \in ExcTexts :
                      r = AfterCall(step.rpc_req, tools, step.params,
                                    Raised(calls[k].outcome.exc, text))

\* C5: an accepted item whose params miss a required argument of the tool or
\* carry an argument the tool does not have gets error.code = -32602,
\* data.required_params = the tool's required parameter names and
\* data.received_params = the names supplied.
C5_ArgumentMismatch ==
    \A i \in Answered :
        LET rq == JSONRPCRequest(requests[i]) IN
        (Accepted(requests[i]) /\ HasTool(tools, rq.method)) =>
            LET f == GetTool(tools, rq.method)
                supplied == Keys(ParamsOrEmpty(rq.params))
            IN  (\/ ~(SeqToSet(supplied) \subseteq SeqToSet(ParamNames(f)))
                 \/ ~(SeqToSet(RequiredNames(f)) \subseteq SeqToSet(supplied))) =>
                    /\ ErrorCode(responses[i]) = -32602
                    /\ responses[i].error.data.required_params = RequiredNames(f)
                    /\ responses[i].error.data.received_params = supplied

\* C6: an accepted item whose method is not registered gets the request's
\* id, error.code = -32601 and data.available_tools = the registered names,
\* and enters no tool; -32601 is never the answer to a registered method.
C6_MethodNotFound ==
    \A i \in Answered :
        LET rq == JSONRPCRequest(requests[i]) IN
        /\ (Accepted(requests[i]) /\ ~HasTool(tools, rq.method)) =>
              /\ responses[i].id = rq.id
              /\ ErrorCode(responses[i]) = -32601
              /\ responses[i].error.data = [available_tools |-> Keys(tools)]
              /\ responses[i].result = None
              /\ CallsOf(i) = {}
        /\ ErrorCode(responses[i]) = -32601 =>
              /\ Accepted(requests[i])
              /\ ~HasTool(tools, rq.method)

\* an unknown method answered while a tool registered after startup is listed
C6_Witness ==
    /\ pc = "done"
    /\ Len(tools) > 2
    /\ \E i \in Answered :
          /\ requests[i].method = "nosuch"
          /\ requests[i].id = "int:7"
          /\ responses[i].id = "int:7"
          /\ ErrorCode(responses[i]) = -32601

\* C7: an accepted item whose method is registered and whose tool returns v
\* gets the request's id, result = {"value": v} and no error; the tool was
\* entered exactly once for it, with the params of the item, or with no
\* argument when the item has no params.
C7_Success ==
    \A i \in Answered :
        \A k \in CallsOf(i) :
            calls[k].outcome.kind = "return" =>
                LET rq == JSONRPCRequest(requests[i]) IN
                /\ Accepted(requests[i])
                /\ responses[i] = [jsonrpc |-> "2.0", id |-> rq.id,
                                   result |-> [value |-> calls[k].outcome.val],
                                   error |-> None]
                /\ CallsOf(i) = {k}
                /\ calls[k].tool = rq.method
                /\ calls[k].kwargs = (IF requests[i].params.kind = "map"
                                      THEN requests[i].params.kv ELSE <<>>)

\* a tool without parameters called with no params member returns a value
C7_Witness ==
    /\ pc = "done"
    /\ \E i \in Answered :
          /\ requests[i].params.kind = "absent"
          /\ requests[i].id = "str:a"
          /\ responses[i].result = [value |-> "v1"]
          /\ CallsOf(i) # {}

\* C8: a JSON array, also of one element, is answered by a list; any other
\* JSON value is answered by exactly one response object, whatever the
\* outcome of the item.
C8_Shape ==
    (pc = "done" /\ body.kind = "json") =>
        IF body.list
        THEN reply.kind = "list" /\ reply.items = responses
        ELSE reply.kind = "object" /\ responses = <<reply.item>>

\* a one-element array answered by a one-element list
C8_Witness ==
    /\ pc = "done" /\ body.kind = "json" /\ body.list
    /\ Len(body.items) = 1
    /\ reply.kind = "list" /\ Len(reply.items) = 1

\* C9: a tool is entered, or -32601 is answered, only for an item whose
\* jsonrpc member equals "2.0"; every item that is no Request, or whose
\* jsonrpc member is not "2.0", gets error.code = -32600 and enters no tool.
C9_VersionGate ==
    \A i \in Answered :
        /\ (CallsOf(i) # {} \/ ErrorCode(responses[i]) = -32601) =>
              requests[i].obj /\ requests[i].jsonrpc = "2.0"
        /\ (~JSONRPCRequest(requests[i]).ok \/ requests[i].jsonrpc # "2.0") =>
              ErrorCode(responses[i]) = -32600 /\ CallsOf(i) = {}

\* exactly one of result and error is populated
OneOfResultError(r) == (r.result = None) # (r.error = None)

\* the responses the handler has produced so far
Produced ==
    SeqToSet(responses) \cup (IF reply.kind = "object" THEN {reply.item} ELSE {})

\* C10 as stated: the id of a response is the id of the item it answers, and
\* it is null only if the item has no id or is no Request, or the body could
\* not be parsed; exactly one of result and error is populated.
C10_IdMirrorOriginal ==
    /\ \A r \in Produced : OneOfResultError(r)
    /\ \A i \in Answered :
          IF responses[i].id = Null
          THEN requests[i].id \in {Absent, Null} \/ ~JSONRPCRequest(requests[i]).ok
          ELSE responses[i].id = requests[i].id
    /\ (pc = "done" /\ body.kind # "json") => reply.item.id = Null

\* C10 (amended): the id of a response is the id of the item it answers
\* whenever the item is accepted (null if the item has none); every -32600
\* response and every top-level response has id = null, also when the item
\* carried an id; exactly one of result and error is populated.
C10_IdMirror ==
    /\ \A r \in Produced : OneOfResultError(r)
    /\ \A i \in Answered :
          IF Accepted(requests[i])
          THEN /\ responses[i].id = JSONRPCRequest(requests[i]).id
               /\ responses[i].id = (IF requests[i].id = Absent THEN Null
                                     ELSE requests[i].id)
               /\ ErrorCode(responses[i]) # -32600
          ELSE responses[i].id = Null /\ ErrorCode(responses[i]) = -32600
    /\ (pc = "done" /\ body.kind # "json") => reply.item.id = Null

\* an item of another protocol version that carries an id is answered with
\* id = null, next to a failed tool answered with the id of its item
C10_Witness ==
    /\ pc = "done" /\ Len(responses) = 2
    /\ requests[1].jsonrpc = "1.0" /\ requests[1].id = "int:7"
    /\ responses[1].id = Null
    /\ ErrorCode(responses[2]) = -32603 /\ responses[2].id = "int:7"

----------------------------------------------------------------------------
\* C11: the legacy endpoint replies 404 exactly when the named tool is not
\* registered; for a registered tool a return of v is answered {"result": v}
\* and every failure (of the binding or of the tool body) is answered 400.
C11_LegacyStatus ==
    http.kind = "reply" =>
        /\ (http.status = 404) <=> ~http.call.registered
        /\ http.call.registered =>
              IF http.outcome.kind = "return"
              THEN http.status = 200 /\ http.content = <<"result", http.outcome.val>>
              ELSE http.status = 400

----------------------------------------------------------------------------
\* C12: while a call is inside a tool's callable, a health probe that has
\* arrived can be served.
C12_OnlyOwnRequestStalls ==
    (pc \in {"in_tool", "legacy_tool"} /\ waiting > 0) => ENABLED health_check

----------------------------------------------------------------------------
\* C13: the registry maps every name ever registered to the callable
\* registered last under it, and to nothing else.
C13_LaterWins ==
    /\ SeqToSet(Keys(tools)) = {p[1] : p \in latest}
    /\ Cardinality(SeqToSet(Keys(tools))) = Len(tools)
    /\ \A p \in latest : GetTool(tools, p[1]) = p[2]

\* weather has been registered again, and a listing, a legacy call and an RPC
\* call have run since
C13_Witness ==
    /\ <<"weather", weather_v2>> \in latest
    /\ listing.kind = "listing"
    /\ http.kind = "reply"
    /\ pc = "done"

----------------------------------------------------------------------------
\* C14: only a registration changes the registry, and a listing equals the
\* listing before it unless a registration came between them.
C14_Step ==
    /\ tools' # tools => \E func \in ServerFuncs : tool(func)
    /\ (listing.kind = "listing" /\ listing'.kind = "listing") => listing' = listing

C14_ListingRepeatable == [][C14_Step]_vars

\* a listing has been returned and a legacy call is inside a tool body
C14_Witness ==
    /\ listing.kind = "listing"
    /\ pc = "legacy_tool"
    /\ http.call.parameters # <<>>

----------------------------------------------------------------------------
\* C15 as stated: the descriptors listed for a tool are those of its
\* required parameters, in declaration order.
C15_RequiredDescriptors ==
    listing.kind = "listing" =>
        \A i \in 1..Len(listing.value.tools) :
            LET entry == listing.value.tools[i] IN
            [k \in 1..Len(entry.parameters) |-> entry.parameters[k].name]
                = RequiredNames(GetTool(tools, entry.name))

\* C15: the descriptors listed for a tool are those of all its formal
\* parameters, with or without default, in declaration order.
C15_FormalDescriptors ==
    listing.kind = "listing" =>
        \A i \in 1..Len(listing.value.tools) :
            LET entry == listing.value.tools[i] IN
            [k \in 1..Len(entry.parameters) |-> entry.parameters[k].name]
                = ParamNames(GetTool(tools, entry.name))

\* a listing that holds weather(location, date=None)
C15_Witness ==
    /\ listing.kind = "listing"
    /\ \E i \in 1..Len(listing.value.tools) :
          /\ listing.value.tools[i].name = "weather"
          /\ Len(listing.value.tools[i].parameters) = 2

----------------------------------------------------------------------------
\* C16: a listing has one entry per registered name, in the order of the
\* mapping, built from the callable registered last; available_tools of a
\* -32601 response is in that order; a registration keeps the position of
\* every name already present and puts a new name last.
C16_State ==
    /\ listing.kind = "listing" =>
          /\ [i \in 1..Len(listing.value.tools) |-> listing.value.tools[i].name]
                = Keys(tools)
          /\ \A p \in latest : \E i \in 1..Len(listing.value.tools) :
                LET entry == listing.value.tools[i]
                    info == ParseDocstring(p[2].doc)
                IN  /\ entry.name = p[1]
                    /\ entry.description = info.description
                    /\ [k \in 1..Len(entry.parameters) |-> entry.parameters[k].name]
                          = ParamNames(p[2])
                    /\ \A j \in 1..Len(listing.value.tools) :
                          listing.value.tools[j].name = p[1] => j = i
    /\ \A i \in Answered :
          ErrorCode(responses[i]) = -32601 =>
              responses[i].error.data.available_tools = Keys(tools)

C16_Step ==
    \/ Keys(tools') = Keys(tools)
    \/ \E func \in ServerFuncs :
          /\ ~HasTool(tools, func.fname)
          /\ Keys(tools') = Append(Keys(tools), func.fname)

C16_ListOrder == []C16_State /\ [][C16_Step]_vars

\* weather was registered again after echo and lookup were added; a listing
\* has been taken and an unknown method has been answered
C16_Witness ==
    /\ Len(tools) = 4
    /\ <<"weather", weather_v2>> \in latest
    /\ listing.kind = "listing"
    /\ pc = "done"
    /\ ErrorCode(responses[1]) = -32601

----------------------------------------------------------------------------
\* C17: the scan never ends by an exception; when it has returned, the
\* tools of every eligible unit whose import succeeded are registered,
\* wherever the unit stands among failing units; a missing directory leaves
\* the registry as it was.
C17_FailureIsolation ==
    /\ pc # "startup_failed"
    /\ pc = "discovered" =>
          \A i \in 1..Len(directory.listing) :
              LET unit == directory.listing[i] IN
              (Eligible(unit) /\ unit.load = "ok") =>
                  \A k \in 1..Len(unit.funcs) : HasTool(tools, unit.funcs[k].fname)
    /\ (pc = "discovered" /\ directory.kind = "missing") => tools = <<>>

----------------------------------------------------------------------------
\* C18: no failure leaves json_rpc_handler: whatever the body and whatever
\* the tools do (return, or raise any exception), the handler ends by
\* returning a response object or a list of response objects, and a failure
\* that no item handles yields one response with id = null and -32603.
C18_NeverEscapes ==
    /\ pc # "escaped"
    /\ pc = "done" =>
          IF reply.kind = "list"
          THEN \A i \in 1..Len(reply.items) : OneOfResultError(reply.items[i])
          ELSE reply.kind = "object" /\ OneOfResultError(reply.item)
    /\ (pc = "done" /\ body.kind # "json") =>
          reply.item.id = Null /\ ErrorCode(reply.item) = -32603

----------------------------------------------------------------------------
\* C19: a call of a registered tool whose arguments are named exactly as the
\* tool's formal parameters enters the callable once with these arguments,
\* and the reply carries what the callable returned.
ExactArgs(f, kwargs) ==
    /\ Len(kwargs) = Len(f.sig)
    /\ SeqToSet(Keys(kwargs)) = SeqToSet(ParamNames(f))

C19_BindByName ==
    /\ \A i \in Answered :
          LET rpc_req == JSONRPCRequest(requests[i]) IN
          (/\ Accepted(requests[i])
           /\ IF HasTool(tools, rpc_req.method)
              THEN ExactArgs(GetTool(tools, rpc_req.method),
                             ParamsOrEmpty(rpc_req.params))
              ELSE FALSE) =>
              /\ Cardinality(CallsOf(i)) = 1
              /\ \A k \in CallsOf(i) :
                    /\ calls[k].kwargs = ParamsOrEmpty(rpc_req.params)
                    /\ calls[k].outcome.kind = "return" =>
                          responses[i].result = [value |-> calls[k].outcome.val]
    /\ (/\ http.kind = "reply"
        /\ IF http.call.registered
           THEN ExactArgs(http.call.func, http.call.parameters)
           ELSE FALSE) =>
          /\ http.outcome # Running
          /\ http.outcome.kind = "return" =>
                http.content = <<"result", http.outcome.val>>

----------------------------------------------------------------------------
\* C20: the description is made of the lines before the parameters header
\* only, and the DocInfo of a docstring is the DocInfo of the docstring cut
\* just before the first terminating header that follows the parameters
\* header.
HeaderAt(lines, i) == IsParamsHeader(Strip(lines[i]))

TerminatorAfterHeader(lines, j) ==
    /\ IsTerminator(Strip(lines[j]))
    /\ \E h \in 1..(j - 1) : HeaderAt(lines, h)

\* the docstring without the first terminating header after the parameters
\* header and without the lines that follow it
Truncated(d) ==
    IF \E j \in 1..Len(d.lines) : TerminatorAfterHeader(d.lines, j)
    THEN LET j == CHOOSE j \in 1..Len(d.lines) :
                      /\ TerminatorAfterHeader(d.lines, j)
                      /\ \A k \in 1..(j - 1) : ~TerminatorAfterHeader(d.lines, k)
         IN  Doc(SubSeq(d.lines, 1, j - 1))
    ELSE d

\* the lines before the first parameters header
BeforeHeader(lines) ==
    IF \E h \in 1..Len(lines) : HeaderAt(lines, h)
    THEN LET h == CHOOSE h \in 1..Len(lines) :
                      HeaderAt(lines, h) /\ \A k \in 1..(h - 1) : ~HeaderAt(lines, k)
         IN  SubSeq(lines, 1, h - 1)
    ELSE lines

C20_ModeOrdering ==
    doc_info.kind = "info" =>
        /\ doc_info.value = ParseDocstring(Truncated(docstring))
        /\ doc_info.value.description =
              JoinLines(SelectSeq([i \in 1..Len(BeforeHeader(docstring.lines)) |->
                                      Strip(BeforeHeader(docstring.lines)[i])],
                                  LAMBDA l : l # <<>>))

\* a parsed docstring with the parameters header, a parameter line, a
\* terminating header and a line with a separator after it
C20_Witness ==
    /\ doc_info.kind = "info"
    /\ \E h, p, j, k \in 1..Len(docstring.lines) :
          /\ h < p /\ p < j /\ j < k
          /\ HeaderAt(docstring.lines, h)
          /\ docstring.lines[p] = <<SP, "x", AC, SP, "d1">>
          /\ IsTerminator(Strip(docstring.lines[j]))
          /\ Contains(docstring.lines[k], FW)
    /\ Len(doc_info.value.params_desc) = 1

----------------------------------------------------------------------------
\* C21: in the parameters section a non-blank line that holds a colon of
\* either kind is split at the first colon of the line into the trimmed name
\* and the trimmed description; a non-blank line without colon is appended
\* after a blank to the description of the parameter recorded last, or
\* ignored when none has been recorded.
SplitAtFirst(line) ==
    LET at == CHOOSE i \in 1..Len(line) :
                  line[i] \in {FW, AC} /\ \A j \in 1..(i - 1) : line[j] \notin {FW, AC}
    IN  <<Strip(SubSeq(line, 1, at - 1)), Strip(SubSeq(line, at + 1, Len(line)))>>

\* the parameters recorded so far (desc) and the name recorded last (cur)
\* after one more non-blank line of the parameters section
ExpectedParamLine(st, stripped_line) ==
    IF \E i \in 1..Len(stripped_line) : stripped_line[i] \in {FW, AC}
    THEN LET parts == SplitAtFirst(stripped_line) IN
         IF parts[1] # <<>>
         THEN [desc |-> DictSet(st.desc, parts[1], parts[2]), cur |-> parts[1]]
         ELSE st
    ELSE IF st.cur # <<>>
         THEN [st EXCEPT !.desc =
                  DictSet(@, st.cur, DictGet(@, st.cur, <<>>) \o <<SP>> \o stripped_line)]
         ELSE st

RECURSIVE ExpectedParams(_, _)
ExpectedParams(st, lines) ==
    IF lines = <<>> THEN st.desc
    ELSE LET stripped_line == Strip(Head(lines)) IN
         IF IsTerminator(stripped_line) THEN st.desc
         ELSE IF stripped_line = <<>> \/ IsParamsHeader(stripped_line)
         THEN ExpectedParams(st, Tail(lines))
         ELSE ExpectedParams(ExpectedParamLine(st, stripped_line), Tail(lines))

\* the lines after the first parameters header
AfterHeader(lines) ==
    SubSeq(lines, Len(BeforeHeader(lines)) + 2, Len(lines))

C21_SplitAtFirstSeparator ==
    doc_info.kind = "info" =>
        doc_info.value.params_desc =
            ExpectedParams([desc |-> <<>>, cur |-> <<>>], AfterHeader(docstring.lines))

====
